---- MODULE Spec2Model ----
(***************************************************************************)
(* Model of the signature player of src/signature-player.js (lines 1-197): *)
(* the SignaturePlayer controller (fetch effect, start timer, controller   *)
(* effect with nextTick and the two dwell timers, unmount) and the         *)
(* AnimatedPath stroke renderer (segment measurement effect and render).   *)
(*                                                                         *)
(* Time is in milliseconds.  A pending timer is its remaining delay; the   *)
(* timer with the least remaining delay fires next and the delay it had    *)
(* left elapses for the others; timers due at the same instant fire in    *)
(* either order.  A state update, the re-render it causes and the effect   *)
(* cleanup / re-run that follows are one step.  A state update to the      *)
(* value the state already has causes no re-render and re-runs no effect.  *)
(***************************************************************************)
EXTENDS Integers, Sequences, FiniteSets, TLC

VARIABLES
    jsonUrl,      \* the jsonUrl prop is given (truthy)
    config,       \* useMemo: DEFAULT_CONFIG merged with options
    mounted,      \* the component is mounted (root not unmounted)
    aborted,      \* controller.signal.aborted
    fetchState,   \* position of the fetch / json promise chain
    json,         \* the parsed response body held by the promise chain
    data,         \* useState(null)
    step,         \* useState(-1)
    direction,    \* useState(1): 1 writes, -1 erases
    startTimer,   \* remaining delay of the 500ms start timer, or NoTimer
    timer,        \* the controller effect's `timer`: kind and remaining delay
    logged,       \* number of console.error calls
    lastEvent,    \* the handler that ran last
    path          \* one AnimatedPath instance: its props, segments state and output

vars == <<jsonUrl, config, mounted, aborted, fetchState, json, data, step,
          direction, startTimer, timer, logged, lastEvent, path>>

playerVars == <<jsonUrl, config, mounted, aborted, fetchState, json, data, step,
                direction, startTimer, timer, logged, lastEvent>>

-----------------------------------------------------------------------------
(* Bounds *)

MaxStrokes == 3
MaxSegs == 2
MaxLen == 2

-----------------------------------------------------------------------------
(* Constants of the program *)

Forward == 1
Backward == -1
InitialStep == -1
StartDelay == 500
DefaultDuration == 1000
DefaultDelay == 100
DefaultLoopDelay == 2000
DefaultEraseDelay == 500

NoTimer == -1
NoData == [loaded |-> FALSE]
NoJson == [parsed |-> FALSE]
IdleTimer == [kind |-> "none", left |-> NoTimer]

DEFAULT_CONFIG ==
    [loop |-> TRUE, duration |-> DefaultDuration, delay |-> DefaultDelay,
     loopDelay |-> DefaultLoopDelay, eraseDelay |-> DefaultEraseDelay]

\* the options a host may pass: every field optional, durations >= 0
Configs ==
    [loop : BOOLEAN, duration : {0, 200, DefaultDuration}, delay : {0, DefaultDelay},
     loopDelay : {0, DefaultLoopDelay}, eraseDelay : {0, DefaultEraseDelay}]

\* response bodies: without a stroke list, or with 0..MaxStrokes strokes of
\* which stroke 0 may carry a recorded trace
Documents ==
    {[hasPaths |-> FALSE, paths |-> 0, recorded |-> FALSE]}
    \cup [hasPaths : {TRUE}, paths : 0..MaxStrokes, recorded : BOOLEAN]

-----------------------------------------------------------------------------
(* SignaturePlayer: helpers *)

Pending(t) == t # NoTimer

\* setTimeout(f, ms) of the controller effect and of nextTick
Arm(kind, ms) == [kind |-> kind, left |-> ms]

\* const interval = config.duration + config.delay
Interval == config.duration + config.delay

\* const total = data.paths.length
Total == data.paths

\* the remaining delay of another timer once `ms` have elapsed
Elapse(t, ms) == IF Pending(t) THEN t - ms ELSE t

\* the controller effect, run for the state (data, step, direction, config):
\* without data it arms nothing, otherwise it arms the tick timer
ControllerEffect(d) ==
    IF d.loaded THEN Arm("tick", Interval) ELSE IdleTimer

\* the start timer is the next timer to fire
StartIsNext ==
    /\ Pending(startTimer)
    /\ timer.kind # "none" => startTimer <= timer.left

\* the controller's timer is the next timer to fire
TimerIsNext ==
    /\ timer.kind # "none"
    /\ Pending(startTimer) => timer.left <= startTimer

-----------------------------------------------------------------------------
(* Numbers: segment durations and delays are JavaScript numbers obtained by
   division; they are kept as exact fractions <<numerator, denominator>> in
   lowest terms with a positive denominator. *)

RECURSIVE Gcd(_, _)
Gcd(a, b) == IF b = 0 THEN a ELSE Gcd(b, a % b)

Abs(a) == IF a < 0 THEN -a ELSE a

Rat(n, d) ==
    LET g == Gcd(Abs(n), d)
    IN  IF n = 0 THEN <<0, 1>> ELSE <<n \div g, d \div g>>

RatInt(n) == <<n, 1>>
RatAdd(a, b) == Rat(a[1] * b[2] + b[1] * a[2], a[2] * b[2])
RatSub(a, b) == Rat(a[1] * b[2] - b[1] * a[2], a[2] * b[2])
RatMul(a, b) == Rat(a[1] * b[1], a[2] * b[2])
RatDiv(a, b) == IF b[1] > 0 THEN Rat(a[1] * b[2], a[2] * b[1])
                            ELSE Rat(-(a[1] * b[2]), a[2] * (-b[1]))
RatLt(a, b) == a[1] * b[2] < b[1] * a[2]
RatLe(a, b) == a[1] * b[2] <= b[1] * a[2]

-----------------------------------------------------------------------------
(* AnimatedPath *)

\* no AnimatedPath instance is being followed
NoPath == [mounted |-> FALSE]

\* the inputs of the renderer: recorded data is absent, or has a rawStrokes
\* list (possibly empty) of paths with their getTotalLength(), and possibly
\* a legacy path d (hasD) of length dLen; a missing d is measured as the
\* path "undefined", of length 0.  Path data and widths are
\* passed through to the output unchanged and are left out.
RawStrokes == UNION {[1..k -> 0..MaxLen] : k \in 0..MaxSegs}

RecordedData ==
    {[present |-> FALSE, rawStrokes |-> <<>>, hasD |-> FALSE, dLen |-> 0]}
    \cup {r \in [present : {TRUE}, rawStrokes : RawStrokes, hasD : BOOLEAN,
                 dLen : 0..MaxLen] : ~r.hasD => r.dLen = 0}

PathDurations == {0, 3, DefaultDuration}

\* const raw = rawStrokes && rawStrokes.length > 0 ? rawStrokes : [{ d, width }]
\* and the measured length of each of its paths
MeasuredLens(rec) ==
    IF Len(rec.rawStrokes) > 0 THEN rec.rawStrokes ELSE <<rec.dLen>>

\* measured.reduce((sum, s) => sum + s.len, 0)
RECURSIVE SumLens(_)
SumLens(lens) == IF lens = <<>> THEN 0 ELSE lens[1] + SumLens(Tail(lens))

\* faulty variant of SegDuration: every segment gets the whole stroke duration
SegDurationWhole(len, totalLen, duration) ==
    IF totalLen > 0 THEN RatInt(duration) ELSE RatInt(0)

\* faulty variant of SegDuration: the length share is not multiplied by the
\* stroke duration
SegDurationUnscaled(len, totalLen, duration) ==
    IF totalLen > 0 THEN RatDiv(RatInt(len), RatInt(totalLen)) ELSE RatInt(0)

\* totalLen > 0 ? (s.len / totalLen) * config.duration : 0
SegDuration(len, totalLen, duration) ==
    IF totalLen > 0
      THEN RatMul(RatDiv(RatInt(len), RatInt(totalLen)), RatInt(duration))
      ELSE RatInt(0)

\* the map with accumulatedDelay: each segment starts at the sum of the
\* durations of the segments before it
RECURSIVE Allocate(_, _, _, _)
Allocate(lens, totalLen, duration, accumulatedDelay) ==
    IF lens = <<>> THEN <<>>
    ELSE LET segDuration == SegDuration(lens[1], totalLen, duration)
         IN  <<[len |-> lens[1], duration |-> segDuration, delay |-> accumulatedDelay]>>
             \o Allocate(Tail(lens), totalLen, duration,
                         RatAdd(accumulatedDelay, segDuration))

\* the segment measurement effect: the value given to setSegments
ComputeSegments(rec, duration) ==
    IF ~rec.present THEN <<>>
    ELSE Allocate(MeasuredLens(rec), SumLens(MeasuredLens(rec)), duration, RatInt(0))

\* faulty variant of FadeOpacity: the current stroke is shown in both
\* directions
FadeOpacityCurrentShown(index, currentStep, dir) ==
    IF index <= currentStep THEN 1 ELSE 0

\* opacity of the fade fallback
FadeOpacity(index, currentStep, dir) ==
    IF index < currentStep THEN 1
    ELSE IF index = currentStep /\ dir = Forward THEN 1
    ELSE 0

NoAnimation == [name |-> "none", duration |-> RatInt(0), delay |-> RatInt(0)]

\* faulty variant of MaskSegment: no branch for a waiting stroke, which is then
\* animated like the current one
MaskSegmentNoWaiting(seg, index, currentStep, dir, duration) ==
    IF index < currentStep
      THEN [len |-> seg.len, dashOffset |-> 0, animation |-> NoAnimation]
    ELSE IF dir = Forward
      THEN [len |-> seg.len, dashOffset |-> seg.len,
            animation |-> [name |-> "dash", duration |-> seg.duration,
                           delay |-> seg.delay]]
      ELSE [len |-> seg.len, dashOffset |-> 0,
            animation |-> [name |-> "undash", duration |-> seg.duration,
                           delay |-> RatSub(RatInt(duration),
                                            RatAdd(seg.delay, seg.duration))]]

\* faulty variant of MaskSegment: the reverse delay leaves out the segment's own
\* duration
MaskSegmentLateErase(seg, index, currentStep, dir, duration) ==
    IF index < currentStep
      THEN [len |-> seg.len, dashOffset |-> 0, animation |-> NoAnimation]
    ELSE IF index > currentStep
      THEN [len |-> seg.len, dashOffset |-> seg.len, animation |-> NoAnimation]
    ELSE IF dir = Forward
      THEN [len |-> seg.len, dashOffset |-> seg.len,
            animation |-> [name |-> "dash", duration |-> seg.duration,
                           delay |-> seg.delay]]
      ELSE [len |-> seg.len, dashOffset |-> 0,
            animation |-> [name |-> "undash", duration |-> seg.duration,
                           delay |-> RatSub(RatInt(duration), seg.delay)]]

\* one path of the mask: its dash array, dash offset and animation
MaskSegment(seg, index, currentStep, dir, duration) ==
    IF index < currentStep
      THEN [len |-> seg.len, dashOffset |-> 0, animation |-> NoAnimation]
    ELSE IF index > currentStep
      THEN [len |-> seg.len, dashOffset |-> seg.len, animation |-> NoAnimation]
    ELSE IF dir = Forward
      THEN [len |-> seg.len, dashOffset |-> seg.len,
            animation |-> [name |-> "dash", duration |-> seg.duration,
                           delay |-> seg.delay]]
      ELSE [len |-> seg.len, dashOffset |-> 0,
            animation |-> [name |-> "undash", duration |-> seg.duration,
                           delay |-> RatSub(RatInt(duration),
                                            RatAdd(seg.delay, seg.duration))]]

\* opacity of the masked outline: isWaiting ? 0 : 1
OutlineOpacity(index, currentStep) == IF index > currentStep THEN 0 ELSE 1

\* the element AnimatedPath returns for its props and its segments state
AnimatedPath(rec, segments, index, currentStep, dir, duration) ==
    IF ~rec.present \/ Len(segments) = 0
      THEN [mode |-> "fade", opacity |-> FadeOpacity(index, currentStep, dir),
            mask |-> <<>>]
      ELSE [mode |-> "traced", opacity |-> OutlineOpacity(index, currentStep),
            mask |-> [i \in 1..Len(segments) |->
                        MaskSegment(segments[i], index, currentStep, dir, duration)]]

\* AnimatedPath of the earlier variant (src/unnamed/part_000):
\* const maskPath = recordedStrokeData?.d
MaskPathP0(rec) == rec.present /\ rec.hasD

\* targetOpacity of the earlier variant
TargetOpacityP0(maskPath, index, currentStep, dir) ==
    IF index < currentStep THEN 1
    ELSE IF index > currentStep THEN 0
    ELSE IF dir = Forward THEN 1
    ELSE IF maskPath THEN 1 ELSE 0

\* targetOffset of the earlier variant, len being its measured mask length
TargetOffsetP0(len, index, currentStep, dir) ==
    IF index < currentStep THEN 0
    ELSE IF index > currentStep THEN len
    ELSE IF dir = Forward THEN 0
    ELSE len

\* the element the earlier AnimatedPath returns: the masked outline when
\* there is a mask path, else the plain path with targetOpacity
AnimatedPathP0(rec, len, index, currentStep, dir) ==
    IF MaskPathP0(rec)
      THEN [mode |-> "traced",
            opacity |-> IF index > currentStep THEN 0 ELSE 1,
            dashArray |-> len,
            dashOffset |-> TargetOffsetP0(len, index, currentStep, dir)]
      ELSE [mode |-> "fade",
            opacity |-> TargetOpacityP0(MaskPathP0(rec), index, currentStep, dir),
            dashArray |-> 0,
            dashOffset |-> 0]

\* the stroke-dashoffset of a mask path t ms after it was rendered: the base
\* value before the animation starts, the linear interpolation of the
\* keyframes (dash: to 0; undash: from 0 to --seg-len) while it runs, and the
\* last keyframe afterwards (fill mode forwards)
DashOffsetAt(m, t) ==
    LET a == m.animation
        from == IF a.name = "dash" THEN m.dashOffset ELSE 0
        to == IF a.name = "dash" THEN 0 ELSE m.len
        end == RatAdd(a.delay, a.duration)
    IN  IF a.name = "none" \/ RatLt(t, a.delay) THEN RatInt(m.dashOffset)
        ELSE IF RatLe(end, t) THEN RatInt(to)
        ELSE RatAdd(RatInt(from),
                    RatMul(RatInt(to - from),
                           RatDiv(RatSub(t, a.delay), a.duration)))

\* the length of a mask path that is visible t ms after it was rendered
VisibleAt(m, t) == RatSub(RatInt(m.len), DashOffsetAt(m, t))

\* mount of an AnimatedPath: segments is [] on the first render
PathMount(rec, index, currentStep, dir, duration) ==
    [mounted |-> TRUE, rec |-> rec, index |-> index, currentStep |-> currentStep,
     direction |-> dir, duration |-> duration,
     segments |-> <<>>, measured |-> FALSE,
     out |-> AnimatedPath(rec, <<>>, index, currentStep, dir, duration)]

\* the measurement effect runs after the first render: setSegments and the
\* re-render with the new segments
MeasureSegments ==
    /\ path.mounted
    /\ ~path.measured
    /\ LET segs == ComputeSegments(path.rec, path.duration)
       IN  path' = [path EXCEPT !.segments = segs, !.measured = TRUE,
                       !.out = AnimatedPath(path.rec, segs, path.index,
                                            path.currentStep, path.direction,
                                            path.duration)]
    /\ UNCHANGED playerVars

\* the player re-renders the stroke with a new step or direction
RenderPath ==
    /\ path.mounted
    /\ \E s \in -1..(MaxStrokes - 1), dir \in {Forward, Backward} :
         /\ <<s, dir>> # <<path.currentStep, path.direction>>
         /\ path' = [path EXCEPT !.currentStep = s, !.direction = dir,
                        !.out = AnimatedPath(path.rec, path.segments, path.index,
                                             s, dir, path.duration)]
    /\ UNCHANGED playerVars

-----------------------------------------------------------------------------
(* SignaturePlayer: the fetch effect *)

\* fetch(jsonUrl) resolves with a response; r.json() starts reading the body
FetchRespond ==
    /\ fetchState = "fetching"
    /\ ~aborted
    /\ fetchState' = "parsing"
    /\ lastEvent' = "respond"
    /\ UNCHANGED <<jsonUrl, config, mounted, aborted, json, data, step, direction,
                   startTimer, timer, logged, path>>

\* fetch(jsonUrl) rejects with a network error: the catch handler logs it
FetchFail ==
    /\ fetchState = "fetching"
    /\ ~aborted
    /\ fetchState' = "failed"
    /\ logged' = logged + 1
    /\ lastEvent' = "fetchError"
    /\ UNCHANGED <<jsonUrl, config, mounted, aborted, json, data, step, direction,
                   startTimer, timer, path>>

\* r.json() resolves with a body; the second then-callback is queued
ParseDone ==
    /\ fetchState = "parsing"
    /\ ~aborted
    /\ \E doc \in Documents : json' = [parsed |-> TRUE, doc |-> doc]
    /\ fetchState' = "parsed"
    /\ lastEvent' = "parsed"
    /\ UNCHANGED <<jsonUrl, config, mounted, aborted, data, step, direction,
                   startTimer, timer, logged, path>>

\* r.json() rejects with a syntax error: the catch handler logs it
ParseFail ==
    /\ fetchState = "parsing"
    /\ ~aborted
    /\ fetchState' = "failed"
    /\ logged' = logged + 1
    /\ lastEvent' = "parseError"
    /\ UNCHANGED <<jsonUrl, config, mounted, aborted, json, data, step, direction,
                   startTimer, timer, path>>

\* if (controller.signal.aborted) return;
SkipWhenAborted == aborted

\* faulty variant of ApplyJson: the body is stored without the json.paths test
ApplyJsonAnyBody ==
    /\ fetchState = "parsed"
    /\ fetchState' = "done"
    /\ lastEvent' = "applyJson"
    /\ IF SkipWhenAborted
         THEN UNCHANGED <<data, startTimer, timer>>
         ELSE /\ data' = [loaded |-> TRUE, paths |-> json.doc.paths,
                          recorded |-> json.doc.recorded]
              /\ startTimer' = StartDelay
              /\ timer' = ControllerEffect(data')
    /\ UNCHANGED <<jsonUrl, config, mounted, aborted, json, step, direction,
                   logged, path>>

\* the then-callback on the parsed body: setData and the start timer; the
\* re-render with the new data runs the controller effect
ApplyJson ==
    /\ fetchState = "parsed"
    /\ fetchState' = "done"
    /\ lastEvent' = "applyJson"
    /\ IF SkipWhenAborted \/ ~json.doc.hasPaths
         THEN UNCHANGED <<data, startTimer, timer>>
         ELSE /\ data' = [loaded |-> TRUE, paths |-> json.doc.paths,
                          recorded |-> json.doc.recorded]
              /\ startTimer' = StartDelay
              /\ timer' = ControllerEffect(data')
    /\ UNCHANGED <<jsonUrl, config, mounted, aborted, json, step, direction,
                   logged, path>>

\* the pending fetch or body read rejects with AbortError after abort():
\* the catch handler does not log it
AbortReject ==
    /\ fetchState \in {"fetching", "parsing"}
    /\ aborted
    /\ fetchState' = "aborted"
    /\ lastEvent' = "abortError"
    /\ UNCHANGED <<jsonUrl, config, mounted, aborted, json, data, step, direction,
                   startTimer, timer, logged, path>>

-----------------------------------------------------------------------------
(* SignaturePlayer: timers *)

\* faulty variant of StartTimerFire: the changed step does not re-run the
\* controller effect, the timer armed for the old step stays pending
StartTimerFireKeepsTimer ==
    /\ StartIsNext
    /\ startTimer' = NoTimer
    /\ lastEvent' = "start"
    /\ step' = 0
    /\ timer' = [timer EXCEPT !.left = Elapse(timer.left, startTimer)]
    /\ UNCHANGED <<jsonUrl, config, mounted, aborted, fetchState, json, data,
                   direction, logged, path>>

\* setStep(0) of the start timer; a changed step re-runs the controller effect
StartTimerFire ==
    /\ StartIsNext
    /\ startTimer' = NoTimer
    /\ lastEvent' = "start"
    /\ IF step = 0
         THEN /\ timer' = [timer EXCEPT !.left = Elapse(timer.left, startTimer)]
              /\ UNCHANGED step
         ELSE /\ step' = 0
              /\ timer' = ControllerEffect(data)
    /\ UNCHANGED <<jsonUrl, config, mounted, aborted, fetchState, json, data,
                   direction, logged, path>>

\* what nextTick does to step: setStep(s => s + 1), setStep(s => s - 1) or nothing
NextTickStep ==
    IF direction = Forward
      THEN IF step < Total - 1 THEN step + 1 ELSE step
      ELSE IF step > 0 THEN step - 1 ELSE step

\* faulty variant of NextTickDwell: the write dwell is armed whatever config.loop is
NextTickDwellAlways ==
    IF direction = Forward
      THEN Arm("loopDelay", config.loopDelay)
      ELSE Arm("eraseDelay", config.eraseDelay)

\* the timer nextTick leaves armed when it does not change step
NextTickDwell ==
    IF direction = Forward
      THEN IF config.loop THEN Arm("loopDelay", config.loopDelay) ELSE IdleTimer
      ELSE Arm("eraseDelay", config.eraseDelay)

\* nextTick, fired by the tick timer
Tick ==
    /\ TimerIsNext
    /\ timer.kind = "tick"
    /\ startTimer' = Elapse(startTimer, timer.left)
    /\ lastEvent' = "tick"
    /\ step' = NextTickStep
    /\ timer' = IF step' # step THEN ControllerEffect(data) ELSE NextTickDwell
    /\ UNCHANGED <<jsonUrl, config, mounted, aborted, fetchState, json, data,
                   direction, logged, path>>

\* faulty variant of DwellTarget: both dwell timers set Backward
DwellTargetStuck(kind) == Backward

\* the direction a dwell timer sets
DwellTarget(kind) == IF kind = "loopDelay" THEN Backward ELSE Forward

\* setDirection(-1) after loopDelay, setDirection(1) after eraseDelay; a
\* changed direction re-runs the controller effect
DwellFire ==
    /\ TimerIsNext
    /\ timer.kind \in {"loopDelay", "eraseDelay"}
    /\ startTimer' = Elapse(startTimer, timer.left)
    /\ lastEvent' = "dwell"
    /\ direction' = DwellTarget(timer.kind)
    /\ timer' = IF direction' # direction THEN ControllerEffect(data) ELSE IdleTimer
    /\ UNCHANGED <<jsonUrl, config, mounted, aborted, fetchState, json, data,
                   step, logged, path>>

-----------------------------------------------------------------------------
(* SignaturePlayer: unmount *)

\* cleanup of the fetch effect: if (startTimer) clearTimeout(startTimer)
ClearStartTimer == NoTimer

\* faulty variant of ClearTimer: the cleanup leaves the controller's timer armed
KeepTimer == timer

\* cleanup of the controller effect: clearTimeout(timer)
ClearTimer == IdleTimer

\* root.unmount(): both effect cleanups run
Teardown ==
    /\ mounted
    /\ mounted' = FALSE
    /\ aborted' = (jsonUrl \/ aborted)
    /\ startTimer' = ClearStartTimer
    /\ timer' = ClearTimer
    /\ lastEvent' = "teardown"
    /\ UNCHANGED <<jsonUrl, config, fetchState, json, data, step, direction,
                   logged, path>>

-----------------------------------------------------------------------------

Init ==
    /\ jsonUrl \in BOOLEAN
    /\ config \in Configs
    /\ mounted = TRUE
    /\ aborted = FALSE
    /\ fetchState = IF jsonUrl THEN "fetching" ELSE "none"
    /\ json = NoJson
    /\ data = NoData
    /\ step = InitialStep
    /\ direction = Forward
    /\ startTimer = NoTimer
    /\ timer = IdleTimer
    /\ logged = 0
    /\ lastEvent = "mount"
    /\ path = NoPath

Next ==
    \/ FetchRespond
    \/ FetchFail
    \/ ParseDone
    \/ ParseFail
    \/ ApplyJson
    \/ AbortReject
    \/ StartTimerFire
    \/ Tick
    \/ DwellFire
    \/ Teardown

Spec == Init /\ [][Next]_vars

\* timers fire, promise callbacks run, and the network answers or fails
Fairness ==
    /\ WF_vars(FetchRespond \/ FetchFail)
    /\ WF_vars(ParseDone \/ ParseFail)
    /\ WF_vars(ApplyJson)
    /\ WF_vars(AbortReject)
    /\ WF_vars(StartTimerFire)
    /\ WF_vars(Tick)
    /\ WF_vars(DwellFire)

FairSpec == Spec /\ Fairness

\* one AnimatedPath, mounted with any props, with the player left aside
InitPath ==
    /\ jsonUrl = FALSE
    /\ config = DEFAULT_CONFIG
    /\ mounted = TRUE
    /\ aborted = FALSE
    /\ fetchState = "none"
    /\ json = NoJson
    /\ data = NoData
    /\ step = InitialStep
    /\ direction = Forward
    /\ startTimer = NoTimer
    /\ timer = IdleTimer
    /\ logged = 0
    /\ lastEvent = "mount"
    /\ \E rec \in RecordedData, index \in 0..(MaxStrokes - 1), d \in PathDurations :
         path = PathMount(rec, index, InitialStep, Forward, d)

NextPath ==
    \/ MeasureSegments
    \/ RenderPath

SpecPath == InitPath /\ [][NextPath]_vars

-----------------------------------------------------------------------------
(* The earlier variant of the player (src/unnamed/part_000): the fetch has no
   AbortController and its effect no cleanup, the start timer is not kept in
   a variable; the controller effect is the same.  A state update of an
   unmounted component is dropped. *)

\* fetch(jsonUrl) resolves; nothing stops it after unmount
FetchRespondP0 ==
    /\ fetchState = "fetching"
    /\ fetchState' = "parsing"
    /\ lastEvent' = "respond"
    /\ UNCHANGED <<jsonUrl, config, mounted, aborted, json, data, step, direction,
                   startTimer, timer, logged, path>>

\* fetch(jsonUrl) rejects: console.error("Trace Restore: Load failed:", e)
FetchFailP0 ==
    /\ fetchState = "fetching"
    /\ fetchState' = "failed"
    /\ logged' = logged + 1
    /\ lastEvent' = "fetchError"
    /\ UNCHANGED <<jsonUrl, config, mounted, aborted, json, data, step, direction,
                   startTimer, timer, path>>

\* r.json() resolves with a body
ParseDoneP0 ==
    /\ fetchState = "parsing"
    /\ \E doc \in Documents : json' = [parsed |-> TRUE, doc |-> doc]
    /\ fetchState' = "parsed"
    /\ lastEvent' = "parsed"
    /\ UNCHANGED <<jsonUrl, config, mounted, aborted, data, step, direction,
                   startTimer, timer, logged, path>>

\* r.json() rejects: console.error
ParseFailP0 ==
    /\ fetchState = "parsing"
    /\ fetchState' = "failed"
    /\ logged' = logged + 1
    /\ lastEvent' = "parseError"
    /\ UNCHANGED <<jsonUrl, config, mounted, aborted, json, data, step, direction,
                   startTimer, timer, path>>

\* if (json.paths) { setData(json); setTimeout(() => setStep(0), 500); }
ApplyJsonP0 ==
    /\ fetchState = "parsed"
    /\ fetchState' = "done"
    /\ lastEvent' = IF json.doc.hasPaths THEN "setData" ELSE "applyJson"
    /\ IF ~json.doc.hasPaths
         THEN UNCHANGED <<data, startTimer, timer>>
         ELSE /\ startTimer' = StartDelay
              /\ IF mounted
                   THEN /\ data' = [loaded |-> TRUE, paths |-> json.doc.paths,
                                    recorded |-> json.doc.recorded]
                        /\ timer' = ControllerEffect(data')
                   ELSE UNCHANGED <<data, timer>>
    /\ UNCHANGED <<jsonUrl, config, mounted, aborted, json, step, direction,
                   logged, path>>

\* setStep(0) of the start timer
StartTimerFireP0 ==
    /\ StartIsNext
    /\ startTimer' = NoTimer
    /\ lastEvent' = "start"
    /\ IF ~mounted \/ step = 0
         THEN /\ timer' = [timer EXCEPT !.left = Elapse(timer.left, startTimer)]
              /\ UNCHANGED step
         ELSE /\ step' = 0
              /\ timer' = ControllerEffect(data)
    /\ UNCHANGED <<jsonUrl, config, mounted, aborted, fetchState, json, data,
                   direction, logged, path>>

\* nextTick of the earlier variant: the same branches
TickP0 == Tick

\* the dwell timers of the earlier variant
DwellFireP0 == DwellFire

\* root.unmount(): only the controller effect has a cleanup
TeardownP0 ==
    /\ mounted
    /\ mounted' = FALSE
    /\ timer' = ClearTimer
    /\ lastEvent' = "teardown"
    /\ UNCHANGED <<jsonUrl, config, aborted, fetchState, json, data, step,
                   direction, startTimer, logged, path>>

NextP0 ==
    \/ FetchRespondP0
    \/ FetchFailP0
    \/ ParseDoneP0
    \/ ParseFailP0
    \/ ApplyJsonP0
    \/ StartTimerFireP0
    \/ TickP0
    \/ DwellFireP0
    \/ TeardownP0

SpecP0 == Init /\ [][NextP0]_vars

TypeOK ==
    /\ step \in -1..MaxStrokes
    /\ direction \in {Forward, Backward}
    /\ startTimer \in -1..StartDelay
    /\ timer.kind \in {"none", "tick", "loopDelay", "eraseDelay"}

-----------------------------------------------------------------------------
(* SignaturePlayer: render *)

\* the recorded trace of the documents that carry one: two rawStrokes of
\* equal measured length
TwoEqualSegments ==
    [present |-> TRUE, rawStrokes |-> <<1, 1>>, hasD |-> FALSE, dLen |-> 0]

\* data.recordedStrokes?.[path.id]
RecordedStrokeData(idx) ==
    IF data.recorded /\ idx = 0 THEN TwoEqualSegments
    ELSE [present |-> FALSE, rawStrokes |-> <<>>, hasD |-> FALSE, dLen |-> 0]

\* data.paths.map: the AnimatedPath of stroke idx for the current step and
\* direction, its segments measured
StrokeOut(idx) ==
    AnimatedPath(RecordedStrokeData(idx),
                 ComputeSegments(RecordedStrokeData(idx), config.duration),
                 idx, step, direction, config.duration)

\* if (!data) return null; otherwise the svg with one AnimatedPath per stroke
Render ==
    IF ~data.loaded THEN [svg |-> FALSE, strokes |-> <<>>]
    ELSE [svg |-> TRUE, strokes |-> [i \in 1..data.paths |-> StrokeOut(i - 1)]]

-----------------------------------------------------------------------------
(* Claims about the controller *)

Loaded == data.loaded

\* C1: with a document of at least one stroke, every change of step is +1 or
\* -1 made by a tick from a step other than -1, or the -1 -> 0 transition made
\* by the start timer.
C1_StepOnlyByTickOrStart ==
    [][(Loaded /\ Total >= 1 /\ step' # step) =>
         \/ /\ lastEvent' = "tick"
            /\ step # InitialStep
            /\ step' = step + 1 \/ step' = step - 1
         \/ /\ lastEvent' = "start"
            /\ step = InitialStep
            /\ step' = 0]_vars

\* C2: with loop=false and at least one stroke, once step = strokeCount-1 with
\* direction Forward, step and direction never change again, and after the
\* End-of-Write tick no timer that can change them is pending.
C2_HaltAtEndOfWrite ==
    [][(~config.loop /\ Loaded /\ Total >= 1 /\ step = Total - 1 /\ direction = Forward) =>
         /\ step' = step
         /\ direction' = direction
         /\ (lastEvent' = "tick" /\ step' = step) =>
               (timer'.kind = "none" /\ ~Pending(startTimer'))]_vars

\* C3: direction changes Forward -> Backward only at step = strokeCount-1 and
\* only by the dwell timer a Forward tick armed there; Backward -> Forward only
\* at step = 0 and only by the dwell timer a Backward tick armed there.
C3_DirectionOnlyAtExtremes ==
    [][direction' # direction =>
         /\ Loaded
         /\ lastEvent' = "dwell"
         /\ \/ direction = Forward /\ timer.kind = "loopDelay" /\ step = Total - 1
            \/ direction = Backward /\ timer.kind = "eraseDelay" /\ step = 0]_vars

\* C4: once a document with a stroke list (possibly empty) is loaded, step
\* stays within -1 .. strokeCount-1.
C4_StepInDomain ==
    Loaded => (step >= -1 /\ step <= Total - 1)

\* C5: after unmount no document is stored, no timer is pending (so no timer
\* callback can run) and data, step and direction never change.
C5_TeardownIsFinal ==
    [][~mounted' =>
         /\ ~Pending(startTimer')
         /\ timer'.kind = "none"
         /\ ~mounted => UNCHANGED <<data, step, direction>>]_vars

\* C5 witness: the player was unmounted in mid-play, while erasing
C5_Witness ==
    ~mounted /\ Loaded /\ direction = Backward /\ step >= 0

-----------------------------------------------------------------------------
(* Claims about the renderer *)

TimeSamples == 4

\* the sampled instants 0, D/TimeSamples, ..., D of a stroke of duration D
Times(D) == {Rat(k * D, TimeSamples) : k \in 0..TimeSamples}

RECURSIVE SumDurations(_)
SumDurations(segs) ==
    IF segs = <<>> THEN RatInt(0)
    ELSE RatAdd(segs[1].duration, SumDurations(Tail(segs)))

\* the same stroke rendered for the opposite direction
Flipped ==
    AnimatedPath(path.rec, path.segments, path.index, path.currentStep,
                 -path.direction, path.duration)

\* C6: a stroke with index < step is fully revealed and opaque (opacity 1,
\* every mask path at dash offset 0 without animation), a stroke with
\* index > step is fully hidden (opacity 0, every mask path at dash offset =
\* its length without animation), in fade and traced mode alike, and the
\* result does not depend on the direction.
C6_CompletedShownWaitingHidden ==
    path.mounted =>
      /\ path.index < path.currentStep =>
           /\ path.out.opacity = 1
           /\ \A i \in DOMAIN path.out.mask :
                /\ path.out.mask[i].dashOffset = 0
                /\ path.out.mask[i].animation.name = "none"
           /\ path.out = Flipped
      /\ path.index > path.currentStep =>
           /\ path.out.opacity = 0
           /\ \A i \in DOMAIN path.out.mask :
                /\ path.out.mask[i].dashOffset = path.segments[i].len
                /\ path.out.mask[i].animation.name = "none"
           /\ path.out = Flipped

\* C6 witness: a completed traced stroke of two segments, while erasing
C6_Witness ==
    /\ path.mounted
    /\ path.out.mode = "traced"
    /\ Len(path.out.mask) = 2
    /\ path.index < path.currentStep
    /\ path.direction = Backward

\* the current traced stroke: its Forward and its Backward rendering
IsCurrentTraced ==
    path.mounted /\ path.index = path.currentStep /\ path.out.mode = "traced"

ForwardMask == IF path.direction = Forward THEN path.out.mask ELSE Flipped.mask
BackwardMask == IF path.direction = Backward THEN path.out.mask ELSE Flipped.mask

TimeReversal ==
    \A i \in DOMAIN path.out.mask : \A t \in Times(path.duration) :
        VisibleAt(BackwardMask[i], t)
          = VisibleAt(ForwardMask[i], RatSub(RatInt(path.duration), t))

\* C7 as stated: for every traced stroke, every segment and any
\* strokeDuration D, the visible length under the Backward schedule at t
\* equals the visible length under the Forward schedule at D - t, t in [0, D].
C7_TimeReversalAnyDuration ==
    IsCurrentTraced => TimeReversal

\* C7 amended: the same, for strokeDuration D > 0.
C7_TimeReversal ==
    (IsCurrentTraced /\ path.duration > 0) => TimeReversal

\* C7 witness: the current stroke is erased, in two segments of different
\* length
C7_Witness ==
    /\ IsCurrentTraced
    /\ path.duration > 0
    /\ path.direction = Backward
    /\ Len(path.segments) = 2
    /\ path.segments[1].len > path.segments[2].len
    /\ path.segments[2].len > 0

\* segment i+1 starts exactly when segment i ends, the first one at 0
Contiguous(segs) ==
    /\ segs[1].delay = RatInt(0)
    /\ \A i \in 1..(Len(segs) - 1) :
         /\ segs[i + 1].delay = RatAdd(segs[i].delay, segs[i].duration)
         /\ RatLe(segs[i].delay, segs[i + 1].delay)

IsMeasuredTrace == path.mounted /\ path.measured /\ path.rec.present

\* C8 as stated: for every traced stroke with segments of any lengths >= 0,
\* all-zero lengths included, the segment durations sum to strokeDuration and
\* each segment starts exactly when the one before it ends.
C8_DurationsSumAlways ==
    IsMeasuredTrace =>
      /\ SumDurations(path.segments) = RatInt(path.duration)
      /\ Contiguous(path.segments)

\* C8 amended: the segment durations sum to strokeDuration when the total
\* measured length is > 0, and are all 0 when every segment has length 0; in
\* both cases each segment starts exactly when the one before it ends.
C8_DurationsSum ==
    IsMeasuredTrace =>
      /\ SumLens(MeasuredLens(path.rec)) > 0 =>
           SumDurations(path.segments) = RatInt(path.duration)
      /\ SumLens(MeasuredLens(path.rec)) = 0 =>
           \A i \in DOMAIN path.segments : path.segments[i].duration = RatInt(0)
      /\ Len(path.segments) >= 1
      /\ Contiguous(path.segments)

\* C8 witness: two measured segments of different positive length
C8_Witness ==
    /\ IsMeasuredTrace
    /\ path.duration > 0
    /\ Len(path.segments) = 2
    /\ path.segments[1].len > 0
    /\ path.segments[2].len > path.segments[1].len

-----------------------------------------------------------------------------
(* Claims about playback scenarios *)

ScenarioC == config.loop /\ Loaded /\ Total >= 2

\* C9: with loop=true and n >= 2 strokes, the tick at (n-1, Forward) arms the
\* postWriteDwell timer, which stays armed until it sets direction Backward;
\* while Backward, step only decreases by 1 per tick; the tick at
\* (0, Backward) arms the postEraseDwell timer, which stays armed until it
\* sets direction Forward; the next step change from 0 while Forward is
\* 0 -> 1; and step never returns to -1.
C9_LoopCycle ==
    [][(ScenarioC /\ mounted') =>
         /\ (lastEvent' = "tick" /\ step = Total - 1 /\ direction = Forward) =>
               timer' = Arm("loopDelay", config.loopDelay)
         /\ timer.kind = "loopDelay" =>
               \/ timer'.kind = "loopDelay" /\ step' = step /\ direction' = Forward
               \/ lastEvent' = "dwell" /\ step' = step /\ direction' = Backward
         /\ (direction = Backward /\ step' # step) =>
               (lastEvent' = "tick" /\ step' = step - 1)
         /\ (lastEvent' = "tick" /\ step = 0 /\ direction = Backward) =>
               timer' = Arm("eraseDelay", config.eraseDelay)
         /\ timer.kind = "eraseDelay" =>
               \/ timer'.kind = "eraseDelay" /\ step' = step /\ direction' = Backward
               \/ lastEvent' = "dwell" /\ step' = step /\ direction' = Forward
         /\ (direction = Forward /\ step = 0 /\ step' # step) => step' = 1
         /\ step # InitialStep => step' # InitialStep]_vars

ScenarioConfigA ==
    /\ ~config.loop
    /\ config.duration = DefaultDuration
    /\ config.delay = DefaultDelay

ScenarioA == ScenarioConfigA /\ Loaded /\ Total >= 1 /\ ~data.recorded

\* playback has come to rest: the player is gone, nothing was loaded, or the
\* last stroke is written and no timer is pending
AtRest ==
    \/ ~mounted
    \/ fetchState \in {"none", "failed"}
    \/ /\ fetchState = "done"
       /\ \/ ~Loaded
          \/ Total = 0
          \/ data.recorded
          \/ step = Total - 1 /\ timer.kind = "none" /\ ~Pending(startTimer)

\* C10: with loop=false, the default duration and delay and n >= 1 strokes
\* without recorded trace, step goes -1, 0, 1, ..., n-1 one by one, the
\* End-of-Write tick leaves no timer pending, playback comes to rest at n-1,
\* and a stroke whose opacity is 1 never goes back to opacity 0.
C10_WriteOnceAndHalt ==
    /\ [][ScenarioA =>
            /\ step' # step => (step' = step + 1 /\ step' <= Total - 1)
            /\ direction' = Forward
            /\ (lastEvent' = "tick" /\ step' = step) =>
                  (timer'.kind = "none" /\ ~Pending(startTimer'))
            /\ \A idx \in 0..(Total - 1) :
                  StrokeOut(idx).opacity = 1 => StrokeOut(idx)'.opacity = 1]_vars
    /\ ScenarioConfigA => <>AtRest

\* C10 witness: the third of three untraced strokes is written and playback
\* has halted
C10_Witness ==
    /\ ScenarioA
    /\ mounted
    /\ Total = 3
    /\ step = 2
    /\ lastEvent = "tick"
    /\ timer.kind = "none"
    /\ StrokeOut(2).opacity = 1

-----------------------------------------------------------------------------
(* Claims about load failures, degraded traces and the earlier variant *)

\* the load failed: the fetch or the body parse rejected, or the body has no
\* stroke list
LoadFailed ==
    \/ fetchState = "failed"
    \/ fetchState = "done" /\ json.parsed /\ ~json.doc.hasPaths

\* C11: after a failed fetch, a failed parse or a body without stroke list
\* the controller is idle for good: no document is stored, step is -1,
\* direction is Forward, no timer is armed, nothing is rendered, and the
\* fetch is not tried again.
C11_FailedLoadStaysIdle ==
    [][LoadFailed' =>
         /\ ~data'.loaded
         /\ step' = InitialStep
         /\ direction' = Forward
         /\ ~Pending(startTimer')
         /\ timer'.kind = "none"
         /\ ~Render'.svg
         /\ LoadFailed => fetchState' = fetchState]_vars

\* C11 witness: a body without stroke list was parsed and handled while the
\* player is mounted
C11_Witness ==
    /\ mounted
    /\ fetchState = "done"
    /\ json.parsed
    /\ ~json.doc.hasPaths

\* a recorded entry without rawStrokes (or with an empty list) and without d
EmptyTrace ==
    path.rec.present /\ path.rec.rawStrokes = <<>> /\ ~path.rec.hasD

\* C12: a stroke whose recorded entry has no rawStrokes and no d is rendered
\* like a stroke without recorded entry: fade mode, no mask, opacity 1 iff
\* index < step or (index = step and direction Forward).
C12_EmptyTraceFades ==
    (path.mounted /\ EmptyTrace) =>
      /\ path.out.mode = "fade"
      /\ path.out.mask = <<>>
      /\ path.out.opacity =
           IF \/ path.index < path.currentStep
              \/ path.index = path.currentStep /\ path.direction = Forward
             THEN 1 ELSE 0

\* C13: in the earlier variant, after unmount the fetch is cancelled, no
\* response is applied (no setData), no start timer is armed or fires, no
\* tick or dwell timer is pending, and no step or direction update is issued.
C13_TeardownCancelsAllP0 ==
    [][~mounted' =>
         /\ ~Pending(startTimer')
         /\ timer'.kind = "none"
         /\ ~mounted =>
              /\ lastEvent' \notin {"respond", "parsed", "setData", "start",
                                    "tick", "dwell"}
              /\ UNCHANGED <<data, step, direction>>]_vars

-----------------------------------------------------------------------------
(* Claims about looping, timers and frames *)

\* a loaded document of at least one stroke is played in a loop
Playing == config.loop /\ mounted /\ Loaded /\ Total >= 1

\* there is nothing to loop: loop is off, the player is unmounted, or no
\* document with strokes was loaded
NothingToLoop ==
    \/ ~config.loop
    \/ ~mounted
    \/ fetchState \in {"none", "failed"}
    \/ fetchState = "done" /\ (~Loaded \/ Total = 0)

\* C14: with loop=true, at least one stroke and no unmount, under fair timers
\* the direction is switched to Backward infinitely often and to Forward
\* infinitely often, and a timer is pending in every state.
C14_LoopsForever ==
    /\ []<>(NothingToLoop \/ (lastEvent = "dwell" /\ direction = Backward))
    /\ []<>(NothingToLoop \/ (lastEvent = "dwell" /\ direction = Forward))
    /\ [](Playing => timer.kind # "none")

\* C14 witness: a whole write / erase cycle is over, the postEraseDwell timer
\* has just set Forward again
C14_Witness ==
    /\ Playing
    /\ Total >= 2
    /\ lastEvent = "dwell"
    /\ direction = Forward
    /\ step = 0

\* the number of pending timers whose callback changes step or direction
PendingTimers ==
    (IF Pending(startTimer) THEN 1 ELSE 0) + (IF timer.kind # "none" THEN 1 ELSE 0)

\* C15: in every state of a mounted player at most one timer that changes
\* step or direction is pending, the start timer, the tick timer and the
\* dwell timers counted together.
C15_AtMostOneTimer ==
    mounted => PendingTimers <= 1

\* C16: when step, direction, the document or the config changes, the timer
\* armed for the old values is cancelled (a dwell timer armed by nextTick
\* too) and the timer pending afterwards is the one the effect arms for the
\* new values; a pending dwell timer always belongs to the current step and
\* direction.
C16_NoStaleTimer ==
    [][mounted' =>
         /\ <<step, direction, data, config>>' # <<step, direction, data, config>> =>
               timer' = ControllerEffect(data')
         /\ timer'.kind = "loopDelay" =>
               (direction' = Forward /\ step' >= data'.paths - 1)
         /\ timer'.kind = "eraseDelay" =>
               (direction' = Backward /\ step' <= 0)]_vars

\* C16 witness: the start timer has changed step while the postWriteDwell
\* timer was pending (zero tick period, 2000ms dwell), and the tick timer is
\* armed anew
C16_Witness ==
    /\ mounted
    /\ config.loop
    /\ Interval = 0
    /\ config.loopDelay = DefaultLoopDelay
    /\ Loaded
    /\ Total >= 2
    /\ lastEvent = "start"
    /\ step = 0
    /\ timer = Arm("tick", Interval)

\* C17: with loop=true, step does not change while the postWriteDwell timer
\* armed by the End-of-Write tick is pending; a tick changes only step, a
\* dwell timer changes only direction, and no controller transition changes
\* both or changes the document.
C17_DwellKeepsStep ==
    [][(config.loop /\ Loaded /\ mounted') =>
         /\ timer.kind = "loopDelay" => step' = step
         /\ lastEvent' = "tick" => direction' = direction
         /\ lastEvent' = "dwell" => (step' = step /\ direction' # direction)
         /\ lastEvent' \in {"start", "tick", "dwell"} =>
               /\ data' = data
               /\ ~(step' # step /\ direction' # direction)]_vars

\* C18: a diagnostic is logged for every load failure (rejected fetch,
\* rejected parse, body without stroke list) and none for a cancellation.
C18_FailuresAreLogged ==
    /\ fetchState = "failed" => logged = 1
    /\ (fetchState = "done" /\ json.parsed /\ ~json.doc.hasPaths /\ ~aborted) =>
          logged = 1
    /\ fetchState = "aborted" => logged = 0
    /\ (fetchState = "done" /\ aborted /\ ~data.loaded) => logged = 0

-----------------------------------------------------------------------------
(* Claims about fade mode and segment allocation *)

\* the same stroke rendered by the earlier variant, whose measured length
\* is 0 as long as no mask path is rendered
OutP0 ==
    AnimatedPathP0(path.rec, 0, path.index, path.currentStep, path.direction)

\* C19: for a stroke without recorded trace the opacity is 1 exactly when
\* index < step or (index = step and direction Forward), else 0, and the
\* AnimatedPath of the earlier variant gives the same opacity, also in fade
\* mode.
C19_FadeOpacityAgrees ==
    (path.mounted /\ ~path.rec.present) =>
      /\ path.out.mode = "fade"
      /\ path.out.opacity \in {0, 1}
      /\ path.out.opacity = 1 <=>
           \/ path.index < path.currentStep
           \/ path.index = path.currentStep /\ path.direction = Forward
      /\ OutP0.mode = "fade"
      /\ OutP0.opacity = path.out.opacity

\* C19 witness: the current stroke, without trace, while erasing: hidden
C19_Witness ==
    /\ path.mounted
    /\ ~path.rec.present
    /\ path.index = path.currentStep
    /\ path.direction = Backward
    /\ path.out.opacity = 0

\* the measured lengths l_1..l_k of the stroke and their total L
Lens == MeasuredLens(path.rec)
TotalLen == SumLens(Lens)

\* scenario B: two segments of equal positive length, strokeDuration 1000
ScenarioB ==
    /\ Len(Lens) = 2
    /\ Lens[1] = Lens[2]
    /\ Lens[1] > 0
    /\ path.duration = DefaultDuration

\* C20: with total length L > 0, segment i gets the duration l_i / L *
\* strokeDuration and the start offset (l_1 + ... + l_(i-1)) / L *
\* strokeDuration, the sum of the durations before it; two segments of equal
\* length with strokeDuration 1000 get 500 each, the second starting at 500.
C20_ProportionalAllocation ==
    (IsMeasuredTrace /\ TotalLen > 0) =>
      /\ Len(path.segments) = Len(Lens)
      /\ \A i \in DOMAIN path.segments :
           /\ path.segments[i].duration = Rat(Lens[i] * path.duration, TotalLen)
           /\ path.segments[i].delay
                = Rat(SumLens(SubSeq(Lens, 1, i - 1)) * path.duration, TotalLen)
           /\ path.segments[i].delay
                = SumDurations(SubSeq(path.segments, 1, i - 1))
      /\ ScenarioB =>
           /\ path.segments[1].duration = RatInt(500)
           /\ path.segments[2].duration = RatInt(500)
           /\ path.segments[2].delay = RatInt(500)

\* C20 witness: scenario B, measured
C20_Witness ==
    /\ IsMeasuredTrace
    /\ ScenarioB
    /\ path.segments[2].delay = RatInt(500)

====
